---- MODULE Spec2Model ----
(***************************************************************************)
(* Model of the storyboard application's state orchestration               *)
(* (src/App.tsx): the AppState held by useState, the single commit path    *)
(* updateState, the undo / redo handlers, the image / audio / avatar       *)
(* generation handlers and the story stream with their responses, scene    *)
(* reordering, version restore, the key, the voice test, playback and      *)
(* download of scene audio, the save effect with local storage, and the    *)
(* WAV encoder createWavBlob.                                              *)
(*                                                                         *)
(* An awaited call of the AI service splits its handler in two steps: the  *)
(* part up to the await, and the continuation (or the catch block) that    *)
(* runs when the call settles, any other event in between.                 *)
(*                                                                         *)
(* Objects are modelled by reference, as in JavaScript: every snapshot     *)
(* pushed into a history array is an object allocated on `heap`, and a     *)
(* history array is a sequence of heap addresses.  A snapshot produced by  *)
(* updateState is `updater(prev)`, i.e. a copy of the WHOLE AppState       *)
(* ({...prev, <change>}), so it carries the keys history, historyIndex,    *)
(* isStreaming and streamingContent of the state it was derived from.  A   *)
(* record parsed from local storage carries none of those keys.            *)
(*                                                                         *)
(* historyIndex is 0-based as in the source; TLA+ sequences are 1-based,   *)
(* so history[i] of the source is h[i + 1] here (see At).                  *)
(*                                                                         *)
(* Of the Project fields the model follows title, idea.theme, scenes,      *)
(* characters, versions and story; the timestamps (updatedAt is bumped on  *)
(* the returned state only, never on the stored snapshot) are left out.    *)
(* streamingContent is a sequence of chunks, '' being the empty sequence.   *)
(* A click handler runs against the                                        *)
(* state of the latest render, which is the current state: React           *)
(* re-renders after every discrete event, so the guard of undo / redo      *)
(* (on `state`) and its updater (on `prev`) see the same value.            *)
(***************************************************************************)
EXTENDS Integers, Sequences, FiniteSets, TLC

VARIABLES
    state,      \* the AppState of useState (App.tsx:114)
    heap,       \* every snapshot object ever stored in a history array
    lastOp,     \* observation: the handler that ran last
    pre,        \* observation: `state` just before that handler ran
    commits,    \* observation: number of updateState calls so far
    navs,       \* observation: number of undo / redo calls counted so far
    loaded,     \* observation: TRUE iff the initial state came from local storage
    discarded,  \* observation: addresses of the snapshots that a commit at an
                \* interior cursor cut off (index > cursor before the commit)
    toast,          \* useState toast (App.tsx:159)
    isKeyConfigured,\* useState isKeyConfigured (App.tsx:113): "null", "true", "false"
    requests,       \* image / audio / avatar calls of the AI service made so
                    \* far, each pending (in flight), resolved or rejected
    stories,        \* generateStoryStream calls in flight, with the text so far
    fresh,          \* number of identifiers drawn so far (randomUUID, requests)
    lastReq,        \* observation: the request whose response ran last
    dragItem,       \* useRef dragItem (App.tsx:168), Null for null
    dragOverItem,   \* useRef dragOverItem (App.tsx:169), Null for null
    dragSource,     \* id of the scene element being dragged, Null if none
    isTestingVoice, \* useState isTestingVoice (App.tsx:164)
    voiceCalls,     \* generateVoiceOver calls of voice tests in flight
    playingAudioId, \* useState playingAudioId (App.tsx:163), Null for null
    audioSourceRef, \* useRef audioSourceRef (App.tsx:167): a source, or Null
    sources,        \* the buffer sources started whose onended has not run:
                    \* playing, or stopped with the ended event on its way
    srcs,           \* number of buffer sources created so far
    lastCall,       \* observation: the last call of playSceneAudio or
                    \* downloadSceneAudio
    storage,        \* the record under LOCAL_STORAGE_KEY, NoRecord if none
    timers,         \* the pending timers of the save effect, oldest first;
                    \* each holds the `state` of the render that set it
    wav             \* a call of createWavBlob: its arguments and its result

\* The refs of drag and drop
dragVars == <<dragItem, dragOverItem, dragSource>>

\* Audio playback and the voice test of the sidebar
audioVars ==
    <<isTestingVoice, voiceCalls, playingAudioId, audioSourceRef, sources,
      srcs, lastCall>>

\* The save effect and the local storage
saveVars == <<storage, timers>>

\* The WAV encoder
wavVars == <<wav>>

\* Everything but the AppState, its heap and the observations on them.
envVars ==
    <<toast, isKeyConfigured, requests, stories, fresh, lastReq,
      dragVars, audioVars, wavVars>>

vars ==
    <<state, heap, lastOp, pre, commits, navs, loaded, discarded,
      toast, isKeyConfigured, requests, stories, fresh, lastReq,
      dragVars, audioVars, wavVars, saveVars>>

----------------------------------------------------------------------------
(* Bounds of the exploration *)

MaxCommits == 4        \* commits per run of Spec
MaxLongCommits == 52   \* commits per run of SpecLong
MaxNav == 2            \* undo / redo calls per run of SpecLong
MaxRequests == 2       \* image / audio / avatar requests per run of SpecGen

(* Program constant: [...].slice(-50) in updateState *)
HistoryCap == 50

Themes == {"A", "B"}
DefaultTitle == "Cinematic Project 01"
Titles == {DefaultTitle, "Retitled"}

----------------------------------------------------------------------------
(* Array helpers of the source language *)

Min(a, b) == IF a < b THEN a ELSE b

\* Array.prototype.slice(0, end) for end >= 0
SliceTo(s, end) == SubSeq(s, 1, Min(end, Len(s)))

\* Array.prototype.slice(-n): the last n elements
SliceLast(s, n) == IF Len(s) <= n THEN s ELSE SubSeq(s, Len(s) - n + 1, Len(s))

----------------------------------------------------------------------------
(* Project documents and history entries *)

\* null of a ref, and the absent payload / identifier
Null == -1
None == 0

\* Scene (types.ts:45-60): id, order, image and audio sub-states, and
\* whether the voiceover script vo is non-empty.  url and data hold the
\* number of the request that produced them.
Scene(id, order, vo) ==
    [id |-> id, order |-> order, vo |-> vo,
     image |-> [status |-> "idle", url |-> None],
     audio |-> [status |-> "idle", data |-> None]]

\* Character (types.ts:5-14)
Character(id, status) == [id |-> id, status |-> status, referenceImage |-> None]

\* The one character of a new project (App.tsx:144-146)
DefaultCharacters == <<Character(1, "idle")>>

\* A project document (types.ts:77-87) with the given scenes, characters
\* and versions; story is the number of the generation that wrote it.
FullDoc(title, theme, scenes, characters, versions, story) ==
    [title |-> title, theme |-> theme, scenes |-> scenes,
     characters |-> characters, versions |-> versions, story |-> story]

\* The document of a project without story: no scenes, no versions.
Doc(title, theme) == FullDoc(title, theme, <<>>, DefaultCharacters, <<>>, None)

\* A record parsed from local storage: Project fields only.
BareEntry(doc) ==
    [doc |-> doc, full |-> FALSE, history |-> <<>>, historyIndex |-> 0,
     isStreaming |-> FALSE, streamingContent |-> <<>>]

\* The object `next = updater(prev)` pushed by updateState: every key of the
\* AppState it was spread from.
FullEntry(s) ==
    [doc |-> s.doc, full |-> TRUE, history |-> s.history,
     historyIndex |-> s.historyIndex,
     isStreaming |-> s.isStreaming, streamingContent |-> s.streamingContent]

\* history[i] of the source (0-based) is defined iff Defined(h, i); it is
\* then the object AtH(hp, h, i) of heap hp.
Defined(h, i) == i >= 0 /\ i < Len(h)
AtH(hp, h, i) == hp[h[i + 1]]
At(h, i) == AtH(heap, h, i)

\* {...prev, ...history[i], historyIndex: k}; spreading undefined adds no key.
SpreadEntry(hp, prev, h, i, k) ==
    IF ~Defined(h, i) THEN [prev EXCEPT !.historyIndex = k]
    ELSE IF AtH(hp, h, i).full
         THEN [doc |-> AtH(hp, h, i).doc,
               history |-> AtH(hp, h, i).history,
               historyIndex |-> k,
               isStreaming |-> AtH(hp, h, i).isStreaming,
               streamingContent |-> AtH(hp, h, i).streamingContent]
         ELSE [prev EXCEPT !.doc = AtH(hp, h, i).doc, !.historyIndex = k]

----------------------------------------------------------------------------
(* The record of local storage (App.tsx:227-233) *)

\* The keys of Project (types.ts:77-87)
ProjectKeys ==
    {"id", "title", "createdAt", "updatedAt", "idea", "characters", "story",
     "scenes", "versions"}

\* The keys the save effect takes out of `state` (App.tsx:229)
RemovedKeys == {"history", "historyIndex", "isStreaming", "streamingContent"}

\* The keys of AppState (types.ts:89-95); both initial states have them all
\* (App.tsx:116-155) and every setState spreads the previous state.
StateKeys == ProjectKeys \cup RemovedKeys \cup {"autoUpdatePrompts"}

\* const {history, historyIndex, isStreaming, streamingContent, ...saveData}
\* = s: the document of s under the keys that are left.  The values of a
\* document are numbers, strings, booleans, arrays and objects, which
\* JSON.stringify and JSON.parse give back as they were.
SaveData(s) == [doc |-> s.doc, keys |-> StateKeys \ RemovedKeys]

\* No record under LOCAL_STORAGE_KEY; a stored record r is <<r>>.
NoRecord == <<>>

----------------------------------------------------------------------------
(* The handlers as state transformers *)

\* undo whose guard admits the floor (historyIndex >= 0)
undoH_FloorOpen(hp, s) ==
    IF s.historyIndex >= 0
    THEN SpreadEntry(hp, s, s.history, s.historyIndex - 1, s.historyIndex - 1)
    ELSE s

\* undo (App.tsx:207-215) on heap hp
undoH(hp, s) ==
    IF s.historyIndex > 0
    THEN SpreadEntry(hp, s, s.history, s.historyIndex - 1, s.historyIndex - 1)
    ELSE s

undo(s) == undoH(heap, s)

\* redo that activates the next entry but leaves the cursor where it was
redoH_KeepsCursor(hp, s) ==
    IF s.historyIndex < Len(s.history) - 1
    THEN SpreadEntry(hp, s, s.history, s.historyIndex + 1, s.historyIndex)
    ELSE s

\* redo (App.tsx:217-225) on heap hp
redoH(hp, s) ==
    IF s.historyIndex < Len(s.history) - 1
    THEN SpreadEntry(hp, s, s.history, s.historyIndex + 1, s.historyIndex + 1)
    ELSE s

redo(s) == redoH(heap, s)

\* newHistory that keeps the first 50 entries: slice(0, 50) for slice(-50)
NewHistory_KeepsOldest(s, addr) ==
    SliceTo(Append(SliceTo(s.history, s.historyIndex + 1), addr), HistoryCap)

\* newHistory without the cap: no slice(-50)
NewHistory_NoCap(s, addr) ==
    Append(SliceTo(s.history, s.historyIndex + 1), addr)

\* newHistory of updateState (App.tsx:188); addr is the address of `next`.
NewHistory(s, addr) ==
    SliceLast(Append(SliceTo(s.history, s.historyIndex + 1), addr), HistoryCap)

\* updateState (App.tsx:185-196): next = updater(prev) is stored at
\* address addr, the returned state is next with the new bookkeeping.
updateState(s, next, addr) ==
    [next EXCEPT !.history = NewHistory(s, addr),
                 !.historyIndex = Len(NewHistory(s, addr)) - 1]

\* The heap and the state after setState(prev => ...) of updateState ran on
\* heap hp and state s with an updater returning `next`.
commitH(hp, s, next) ==
    [heap |-> Append(hp, FullEntry(next)),
     state |-> updateState(s, next, Len(hp) + 1)]

----------------------------------------------------------------------------
(* Initial states (App.tsx:114-156) *)

NewProject ==
    [doc |-> Doc(DefaultTitle, ""), history |-> <<>>, historyIndex |-> 0,
     isStreaming |-> FALSE, streamingContent |-> <<>>]

LoadedProject ==
    [doc |-> heap[1].doc, history |-> <<1>>, historyIndex |-> 0,
     isStreaming |-> FALSE, streamingContent |-> <<>>]

\* A new project, or the project stored by an earlier session; the stored
\* record has a title of `titles` and a theme of `themes`.
InitFrom(titles, themes) ==
    /\ \/ /\ loaded = FALSE
          /\ heap = <<>>
          /\ state = NewProject
       \/ /\ loaded = TRUE
          /\ \E t \in titles, th \in themes :
                heap = <<BareEntry(Doc(t, th))>>
          /\ state = LoadedProject
    /\ lastOp = "init"
    /\ pre = state
    /\ commits = 0
    /\ navs = 0
    /\ discarded = {}

\* No call of playSceneAudio or downloadSceneAudio yet; flip changes with
\* every call, done tells whether the call went past its first check.
NoCall == [op |-> "none", scene |-> None, flip |-> FALSE, done |-> FALSE]

\* No call of createWavBlob
NoWav == [pcm |-> <<>>, rate |-> 0, out |-> <<>>]

NoToast == [type |-> "none", msg |-> ""]
NoRequest == [rid |-> None, kind |-> "none", target |-> None, phase |-> "none"]

\* The rest of the component after construction (App.tsx:113, 158-169); key
\* is the value of isKeyConfigured.  The stored project is the record of
\* local storage, and the save effect of the first render has set its timer
\* (App.tsx:227-233).
InitRest(key) ==
    /\ toast = NoToast
    /\ isKeyConfigured = key
    /\ requests = {}
    /\ stories = {}
    /\ fresh = 0
    /\ lastReq = NoRequest
    /\ dragItem = Null
    /\ dragOverItem = Null
    /\ dragSource = Null
    /\ isTestingVoice = FALSE
    /\ voiceCalls = 0
    /\ playingAudioId = Null
    /\ audioSourceRef = Null
    /\ sources = {}
    /\ srcs = 0
    /\ lastCall = NoCall
    /\ storage = (IF loaded THEN <<SaveData(state)>> ELSE NoRecord)
    /\ timers = <<state>>

\* The component after construction, createWavBlob not called.
InitEnv(key) == InitRest(key) /\ wav = NoWav

\* The application once checkKey found a key (App.tsx:171-177).
Init == InitFrom(Titles, Themes \cup {""}) /\ InitEnv("true")

----------------------------------------------------------------------------
(* Actions *)

\* The snapshots a commit in state s cuts off: history.slice(historyIndex + 1)
CutOff(s) ==
    {s.history[i] : i \in (s.historyIndex + 2)..Len(s.history)}

\* a save effect without cleanup: the timer of the previous render stays
SaveEffect_NoCleanup(next) ==
    /\ timers' = Append(timers, next)
    /\ UNCHANGED storage

\* The save effect when setState made `next` the state (App.tsx:227-233):
\* the cleanup of the previous render clears its timer, the effect of the
\* new render sets one that holds `next`.
SaveEffect(next) ==
    /\ timers' = <<next>>
    /\ UNCHANGED storage

\* A handler op that returns without a setState.
Observe(op) ==
    /\ lastOp' = op
    /\ pre' = state
    /\ UNCHANGED <<state, heap, commits, navs, loaded, discarded, saveVars>>

\* One call of updateState, made by handler op, whose updater returns `next`.
CommitAs(op, next) ==
    /\ heap' = commitH(heap, state, next).heap
    /\ state' = commitH(heap, state, next).state
    /\ SaveEffect(commitH(heap, state, next).state)
    /\ lastOp' = op
    /\ pre' = state
    /\ commits' = commits + 1
    /\ discarded' = discarded \cup CutOff(state)
    /\ UNCHANGED <<navs, loaded>>

\* One call of updateState by an edit of the sidebar.
Commit(next) == CommitAs("commit", next)

\* The main screen is rendered only once a key is configured
\* (App.tsx:489-525); otherwise the spinner or the setup screen is.
MainScreen == isKeyConfigured = "true"

\* onChange of the theme textarea (App.tsx:616); the event fires when the
\* text differs from the value shown.
EditTheme(th) ==
    /\ MainScreen
    /\ th # state.doc.theme
    /\ Commit([state EXCEPT !.doc.theme = th])
    /\ UNCHANGED envVars

\* onChange of the title input (App.tsx:607)
EditTitle(t) ==
    /\ MainScreen
    /\ t # state.doc.title
    /\ Commit([state EXCEPT !.doc.title = t])
    /\ UNCHANGED envVars

\* The user edits the theme.
UserEditsTheme ==
    /\ commits < MaxCommits
    /\ \E th \in Themes : EditTheme(th)

\* The user edits the title.
UserEditsTitle ==
    /\ commits < MaxCommits
    /\ \E t \in Titles : EditTitle(t)

\* The undo handler runs (also when its guard is false: no setState then).
UndoStep ==
    /\ MainScreen
    /\ state' = undo(state)
    /\ IF undo(state) = state THEN UNCHANGED saveVars
                               ELSE SaveEffect(undo(state))
    /\ lastOp' = "undo"
    /\ pre' = state
    /\ UNCHANGED <<heap, commits, loaded, discarded>>
    /\ UNCHANGED envVars

\* The redo handler runs (also when its guard is false: no setState then).
RedoStep ==
    /\ MainScreen
    /\ state' = redo(state)
    /\ IF redo(state) = state THEN UNCHANGED saveVars
                               ELSE SaveEffect(redo(state))
    /\ lastOp' = "redo"
    /\ pre' = state
    /\ UNCHANGED <<heap, commits, loaded, discarded>>
    /\ UNCHANGED envVars

\* click on the undo button (App.tsx:696)
Undo == UndoStep /\ UNCHANGED navs

\* click on the redo button (App.tsx:697)
Redo == RedoStep /\ UNCHANGED navs

Next ==
    \/ UserEditsTheme
    \/ UserEditsTitle
    \/ Undo
    \/ Redo

Spec == Init /\ [][Next]_vars

----------------------------------------------------------------------------
(* Long runs: enough commits to fill the history beyond HistoryCap, the    *)
(* every commit replacing the theme by the other one, and a bounded        *)
(* number of undo / redo clicks anywhere in the run.                       *)

OtherTheme(th) == IF th = "A" THEN "B" ELSE "A"

LongEditTheme ==
    /\ commits < MaxLongCommits
    /\ EditTheme(OtherTheme(state.doc.theme))

LongUndo ==
    /\ navs < MaxNav
    /\ UndoStep
    /\ navs' = navs + 1

LongRedo ==
    /\ navs < MaxNav
    /\ RedoStep
    /\ navs' = navs + 1

NextLong ==
    \/ LongEditTheme
    \/ LongUndo
    \/ LongRedo

InitLong == InitFrom({DefaultTitle}, {""}) /\ InitEnv("true")

SpecLong == InitLong /\ [][NextLong]_vars

----------------------------------------------------------------------------
(* Image, audio and avatar generation (App.tsx:278-375) *)

\* a map that sets the image of every scene, whatever its id
SetImage_AllScenes(s, sceneId, img) ==
    [s EXCEPT !.doc.scenes = [i \in DOMAIN @ |-> [@[i] EXCEPT !.image = img]]]

\* prev.scenes.map(s => s.id === sceneId ? {...s, image: img} : s)
SetImage(s, sceneId, img) ==
    [s EXCEPT !.doc.scenes =
        [i \in DOMAIN @ |-> IF @[i].id = sceneId
                            THEN [@[i] EXCEPT !.image = img] ELSE @[i]]]

\* prev.scenes.map(s => s.id === sceneId ? {...s, audio: aud} : s)
SetAudio(s, sceneId, aud) ==
    [s EXCEPT !.doc.scenes =
        [i \in DOMAIN @ |-> IF @[i].id = sceneId
                            THEN [@[i] EXCEPT !.audio = aud] ELSE @[i]]]

\* prev.characters.map(c => c.id === charId ? {...c, status} : c)
SetCharStatus(s, charId, status) ==
    [s EXCEPT !.doc.characters =
        [i \in DOMAIN @ |-> IF @[i].id = charId
                            THEN [@[i] EXCEPT !.status = status] ELSE @[i]]]

\* prev.characters.map(c => c.id === charId
\*     ? {...c, status: 'completed', referenceImage: imageUrl} : c)
SetCharCompleted(s, charId, url) ==
    [s EXCEPT !.doc.characters =
        [i \in DOMAIN @ |-> IF @[i].id = charId
                            THEN [@[i] EXCEPT !.status = "completed",
                                              !.referenceImage = url]
                            ELSE @[i]]]

SceneIds(s) == {s.doc.scenes[i].id : i \in DOMAIN s.doc.scenes} \ {None}
CharIds(s) == {s.doc.characters[i].id : i \in DOMAIN s.doc.characters}
SceneById(s, id) ==
    s.doc.scenes[CHOOSE i \in DOMAIN s.doc.scenes : s.doc.scenes[i].id = id]
CharById(s, id) ==
    s.doc.characters[CHOOSE i \in DOMAIN s.doc.characters :
                        s.doc.characters[i].id = id]

\* The state after the first updateState of a trigger handler.
MarkGenerating(s, kind, target) ==
    CASE kind = "image" -> SetImage(s, target, [status |-> "generating", url |-> None])
      [] kind = "audio" -> SetAudio(s, target, [status |-> "generating", data |-> None])
      [] kind = "avatar" -> SetCharStatus(s, target, "generating")

\* The state after the updateState that follows the await, payload being
\* the image url or the base64 audio.
MarkCompleted(s, kind, target, payload) ==
    CASE kind = "image" -> SetImage(s, target, [status |-> "completed", url |-> payload])
      [] kind = "audio" -> SetAudio(s, target, [status |-> "completed", data |-> payload])
      [] kind = "avatar" -> SetCharCompleted(s, target, payload)

\* a catch block that leaves the entity as it is
MarkError_KeepsStatus(s, kind, target) == s

\* The state after the updateState of the catch block.
MarkError(s, kind, target) ==
    CASE kind = "image" -> SetImage(s, target, [status |-> "error", url |-> None])
      [] kind = "audio" -> SetAudio(s, target, [status |-> "error", data |-> None])
      [] kind = "avatar" -> SetCharStatus(s, target, "error")

SuccessToast(msg) == [type |-> "success", msg |-> msg]
ErrorToast(msg) == [type |-> "error", msg |-> msg]

\* handleApiError that raises the toast but keeps the key
HandleApiError_KeepsKey(auth) ==
    /\ toast' = IF auth
                THEN ErrorToast("API Key invalid or Project not found. Please re-connect.")
                ELSE ErrorToast("Operation failed")
    /\ UNCHANGED isKeyConfigured

\* handleApiError (App.tsx:198-205); auth is TRUE iff err.message includes
\* "Requested entity was not found".
HandleApiError(auth) ==
    IF auth
    THEN /\ isKeyConfigured' = "false"
         /\ toast' = ErrorToast("API Key invalid or Project not found. Please re-connect.")
    ELSE /\ toast' = ErrorToast("Operation failed")
         /\ UNCHANGED isKeyConfigured

\* The call number rid of the AI service for entity target, in flight.
Request(rid, kind, target) ==
    [rid |-> rid, kind |-> kind, target |-> target, phase |-> "pending"]

\* The calls in flight
Pending == {r \in requests : r.phase = "pending"}

\* A trigger handler up to its await: the entity is marked generating and
\* the call of the AI service is issued.
IssueRequest(kind, target) ==
    /\ CommitAs("trigger", MarkGenerating(state, kind, target))
    /\ requests' = requests \cup {Request(fresh + 1, kind, target)}
    /\ fresh' = fresh + 1
    /\ lastReq' = Request(fresh + 1, kind, target)
    /\ UNCHANGED <<toast, isKeyConfigured, stories, dragVars, audioVars, wavVars>>

\* triggerGenerateImage (App.tsx:278-308), from the RENDER button or from
\* the image area, whose onClick has no disabled guard (App.tsx:933).
TriggerGenerateImage(sceneId) ==
    /\ MainScreen
    /\ sceneId \in SceneIds(state)
    /\ IssueRequest("image", sceneId)

\* triggerGenerateAudio (App.tsx:324-337); the GENERATE VO button is
\* rendered unless the audio is generating (App.tsx:900-912).
TriggerGenerateAudio(sceneId) ==
    /\ MainScreen
    /\ sceneId \in SceneIds(state)
    /\ SceneById(state, sceneId).audio.status # "generating"
    /\ IF SceneById(state, sceneId).vo
       THEN IssueRequest("audio", sceneId)
       ELSE /\ toast' = ErrorToast("Voiceover script is empty")
            /\ lastOp' = "novo"
            /\ pre' = state
            /\ lastReq' = NoRequest
            /\ UNCHANGED <<saveVars, state, heap, commits, navs, loaded, discarded,
                           isKeyConfigured, requests, stories, fresh,
                           dragVars, audioVars, wavVars>>

\* triggerGenerateAvatar (App.tsx:352-362), from the hover button of the
\* portrait, which has no disabled guard (App.tsx:791-796).
TriggerGenerateAvatar(charId) ==
    /\ MainScreen
    /\ charId \in CharIds(state)
    /\ IssueRequest("avatar", charId)

\* The call of request r returned its payload: the continuation after the
\* await (App.tsx:310-314, 338-342, 363-367).
ResolveRequest(r) ==
    /\ r \in Pending
    /\ CommitAs("resolve", MarkCompleted(state, r.kind, r.target, r.rid))
    /\ requests' = (requests \ {r}) \cup {[r EXCEPT !.phase = "resolved"]}
    /\ toast' = SuccessToast(r.kind)
    /\ lastReq' = r
    /\ UNCHANGED <<isKeyConfigured, stories, fresh, dragVars, audioVars, wavVars>>

\* The call of request r rejected: the catch block (App.tsx:315-321,
\* 343-349, 368-374).
RejectRequest(r, auth) ==
    /\ r \in Pending
    /\ CommitAs("reject", MarkError(state, r.kind, r.target))
    /\ requests' = (requests \ {r}) \cup {[r EXCEPT !.phase = "rejected"]}
    /\ HandleApiError(auth)
    /\ lastReq' = r
    /\ UNCHANGED <<stories, fresh, dragVars, audioVars, wavVars>>

\* checkKey of the mount effect (App.tsx:171-177)
CheckKey ==
    /\ isKeyConfigured = "null"
    /\ \E has \in {"true", "false"} : isKeyConfigured' = has
    /\ UNCHANGED <<saveVars, state, heap, lastOp, pre, commits, navs, loaded, discarded,
                   toast, requests, stories, fresh, lastReq,
                   dragVars, audioVars, wavVars>>

\* connectGemini (App.tsx:481-486) when openKeySelector succeeds; when it
\* fails nothing is set.
ConnectGemini ==
    /\ isKeyConfigured \in {"true", "false"}
    /\ \E success \in BOOLEAN :
          isKeyConfigured' = IF success THEN "true" ELSE isKeyConfigured
    /\ lastOp' = "connect"
    /\ pre' = state
    /\ lastReq' = NoRequest
    /\ UNCHANGED <<saveVars, state, heap, commits, navs, loaded, discarded,
                   toast, requests, stories, fresh,
                   dragVars, audioVars, wavVars>>

\* The close button of the toast (App.tsx:1034)
DismissToast ==
    /\ MainScreen
    /\ toast # NoToast
    /\ toast' = NoToast
    /\ UNCHANGED <<saveVars, state, heap, lastOp, pre, commits, navs, loaded, discarded,
                   isKeyConfigured, requests, stories, fresh, lastReq,
                   dragVars, audioVars, wavVars>>

UserTriggersImage ==
    /\ fresh < MaxRequests
    /\ \E id \in SceneIds(state) : TriggerGenerateImage(id)

UserTriggersAudio ==
    /\ fresh < MaxRequests
    /\ \E id \in SceneIds(state) : TriggerGenerateAudio(id)

UserTriggersAvatar ==
    /\ fresh < MaxRequests
    /\ \E id \in CharIds(state) : TriggerGenerateAvatar(id)

ServiceResolves == \E r \in Pending : ResolveRequest(r)

ServiceRejects == \E r \in Pending, auth \in BOOLEAN : RejectRequest(r, auth)

\* A call fails for a reason other than the key.
ServiceBreaks == \E r \in Pending : RejectRequest(r, FALSE)

\* A project stored by an earlier session: two scenes, the second without
\* voiceover script, and the default character.
StoredSceneIds == <<101, 102>>
StoredDoc ==
    FullDoc(DefaultTitle, "A",
            <<Scene(StoredSceneIds[1], 0, TRUE), Scene(StoredSceneIds[2], 1, FALSE)>>,
            DefaultCharacters, <<>>, None)

InitGen ==
    /\ loaded = TRUE
    /\ heap = <<BareEntry(StoredDoc)>>
    /\ state = LoadedProject
    /\ lastOp = "init"
    /\ pre = state
    /\ commits = 0
    /\ navs = 0
    /\ discarded = {}
    /\ InitEnv("true")

----------------------------------------------------------------------------
(* Story generation (App.tsx:235-276, types.ts:104-187) *)

MaxStories == 1     \* calls of generateStoryStream per run
MaxChunks == 2      \* chunks streamed per call
MaxScenes == 2      \* scenes of a generated story

\* setState(prev => next) outside updateState, by handler op: no snapshot
\* is pushed.
SetState(op, next) ==
    /\ state' = next
    /\ SaveEffect(next)
    /\ lastOp' = op
    /\ pre' = state
    /\ UNCHANGED <<heap, commits, navs, loaded, discarded>>

\* a finally block that also empties the scenes
EndStream_ClearsScenes(s) ==
    [s EXCEPT !.isStreaming = FALSE, !.streamingContent = <<>>,
              !.doc.scenes = <<>>]

\* The state after setState(prev => ({...prev, isStreaming: false,
\* streamingContent: ''})) of the finally block (App.tsx:274).
EndStream(s) == [s EXCEPT !.isStreaming = FALSE, !.streamingContent = <<>>]

\* The calls of generateStoryStream in flight
Streaming == {st \in stories : st.phase = "pending"}

\* handleGenerateStory up to its await (App.tsx:235-243); the Script Vision
\* button is disabled while state.isStreaming (App.tsx:634-635).
HandleGenerateStory ==
    /\ MainScreen
    /\ ~state.isStreaming
    /\ lastReq' = NoRequest
    /\ IF state.doc.theme = ""
       THEN /\ toast' = ErrorToast("Theme is required.")
            /\ Observe("notheme")
            /\ UNCHANGED <<stories, fresh>>
       ELSE /\ SetState("generate",
                        [state EXCEPT !.isStreaming = TRUE,
                                      !.streamingContent = <<>>])
            /\ stories' = stories \cup
                  {[rid |-> fresh + 1, text |-> <<>>, phase |-> "pending"]}
            /\ fresh' = fresh + 1
            /\ UNCHANGED toast
    /\ UNCHANGED <<isKeyConfigured, requests, dragVars, audioVars, wavVars>>

\* One chunk of the stream of call st: fullText += text; onChunk(fullText)
\* (types.ts:177-183, App.tsx:243-245).  The k-th chunk of call rid is the
\* pair <<rid, k>>.
OnChunk(st) ==
    /\ st \in Streaming
    /\ LET fullText == Append(st.text, <<st.rid, Len(st.text) + 1>>) IN
          /\ stories' = (stories \ {st}) \cup {[st EXCEPT !.text = fullText]}
          /\ SetState("chunk", [state EXCEPT !.streamingContent = fullText])
    /\ lastReq' = NoRequest
    /\ UNCHANGED <<toast, isKeyConfigured, requests, fresh, dragVars, audioVars, wavVars>>

\* newScenes of a result with n scenes (App.tsx:247-255): fresh ids, order
\* idx, image and audio idle.
NewScenes(n, base) == [i \in 1..n |-> Scene(base + i, i - 1, TRUE)]

\* newVersion (App.tsx:257-262)
NewVersion(id, story, scenes) == [id |-> id, story |-> story, scenes |-> scenes]

\* The updater of the updateState of handleGenerateStory (App.tsx:264-269)
\* for the result of call rid with n scenes.
StoryResult(s, rid, n, base) ==
    [s EXCEPT !.doc.story = rid,
              !.doc.scenes = NewScenes(n, base),
              !.doc.versions =
                  <<NewVersion(base + n + 1, rid, NewScenes(n, base))>> \o @]

\* The stream of call st ended and its text parsed as a story of n scenes:
\* the continuation after the await, finally block included
\* (App.tsx:247-270, 273-275).
StoryDone(st, n) ==
    /\ st \in Streaming
    /\ Len(st.text) >= 1
    /\ LET c == commitH(heap, state, StoryResult(state, st.rid, n, fresh)) IN
          /\ heap' = c.heap
          /\ state' = EndStream(c.state)
          /\ SaveEffect(EndStream(c.state))
    /\ lastOp' = "storyDone"
    /\ pre' = state
    /\ commits' = commits + 1
    /\ discarded' = discarded \cup CutOff(state)
    /\ stories' = (stories \ {st}) \cup {[st EXCEPT !.phase = "resolved"]}
    /\ fresh' = fresh + n + 1
    /\ toast' = SuccessToast("Storyboard generated!")
    /\ lastReq' = NoRequest
    /\ UNCHANGED <<navs, loaded, isKeyConfigured, requests, dragVars, audioVars, wavVars>>

\* The call st rejected, or its text did not parse: catch and finally
\* (App.tsx:271-275).
StoryFails(st, auth) ==
    /\ st \in Streaming
    /\ SetState("storyFail", EndStream(state))
    /\ stories' = (stories \ {st}) \cup {[st EXCEPT !.phase = "rejected"]}
    /\ HandleApiError(auth)
    /\ lastReq' = NoRequest
    /\ UNCHANGED <<requests, fresh, dragVars, audioVars, wavVars>>

UserGeneratesStory ==
    /\ Cardinality(stories) < MaxStories
    /\ HandleGenerateStory

StreamChunk == \E st \in Streaming : Len(st.text) < MaxChunks /\ OnChunk(st)

StreamEnds == \E st \in Streaming, n \in 1..MaxScenes : StoryDone(st, n)

StreamFails == \E st \in Streaming, auth \in BOOLEAN : StoryFails(st, auth)

\* The stream fails for a reason other than the key.
StreamBreaks == \E st \in Streaming : StoryFails(st, FALSE)

\* What a run has done so far: its commits, undo / redo clicks, story
\* calls and streamed chunks.
Effort ==
    commits + navs + Cardinality(stories)
        + Cardinality(UNION {{<<st.rid, k>> : k \in 1..Len(st.text)} : st \in stories})

----------------------------------------------------------------------------
(* Scene reordering and version restore (App.tsx:469-479, 1011-1016) *)

MaxStoryCommits == 2   \* commits per run of SpecStory

\* What newList.splice(i, 1)[0] returns when i is past the end: undefined,
\* which {...item, order} turns into a scene without id.
UndefinedScene == Scene(None, 0, FALSE)

\* The element newList.splice(i, 1) removes (0-based i)
ItemAt(l, i) == IF i < Len(l) THEN l[i + 1] ELSE UndefinedScene

\* newList after newList.splice(i, 1)
RemoveAt(l, i) ==
    IF i < Len(l) THEN SubSeq(l, 1, i) \o SubSeq(l, i + 2, Len(l)) ELSE l

\* splice that overwrites the element at j instead of inserting before it
InsertAt_Overwrites(l, j, x) ==
    IF j < Len(l) THEN [l EXCEPT ![j + 1] = x] ELSE Append(l, x)

\* newList after newList.splice(j, 0, x): j past the end appends
InsertAt(l, j, x) ==
    SubSeq(l, 1, Min(j, Len(l))) \o <<x>> \o SubSeq(l, Min(j, Len(l)) + 1, Len(l))

\* a map that keeps the order field of every scene
Reindex_KeepsOrder(l) == l

\* newList.map((s, i) => ({...s, order: i}))
Reindex(l) == [i \in DOMAIN l |-> [l[i] EXCEPT !.order = i - 1]]

\* The updater result of handleSort (App.tsx:473-478) in state s with the
\* refs at di and doi.
handleSort(s, di, doi) ==
    [s EXCEPT !.doc.scenes =
        Reindex(InsertAt(RemoveAt(s.doc.scenes, di), doi, ItemAt(s.doc.scenes, di)))]

\* onDragStart of the scene at index i (App.tsx:469, 850)
HandleDragStart(i) ==
    /\ MainScreen
    /\ dragSource = Null
    /\ i \in 0..(Len(state.doc.scenes) - 1)
    /\ dragItem' = i
    /\ dragSource' = state.doc.scenes[i + 1].id
    /\ UNCHANGED <<saveVars, state, heap, lastOp, pre, commits, navs, loaded, discarded,
                   toast, isKeyConfigured, requests, stories, fresh, lastReq,
                   dragOverItem, audioVars, wavVars>>

\* onDragEnter of the scene at index j during a drag (App.tsx:470, 851)
HandleDragEnter(j) ==
    /\ MainScreen
    /\ dragSource # Null
    /\ j \in 0..(Len(state.doc.scenes) - 1)
    /\ dragOverItem' = j
    /\ UNCHANGED <<saveVars, state, heap, lastOp, pre, commits, navs, loaded, discarded,
                   toast, isKeyConfigured, requests, stories, fresh, lastReq,
                   dragItem, dragSource, audioVars, wavVars>>

\* The drag ends.  dragend is dispatched to the dragged element, so
\* handleSort (App.tsx:471-479, onDragEnd at 852) runs only if the scene
\* element keyed by its id is still rendered.
HandleDragEnd ==
    /\ dragSource # Null
    /\ dragSource' = Null
    /\ lastReq' = NoRequest
    /\ IF MainScreen /\ dragSource \in SceneIds(state)
       THEN IF dragItem = Null \/ dragOverItem = Null
            THEN /\ Observe("sortReturn")
                 /\ UNCHANGED <<dragItem, dragOverItem>>
            ELSE /\ CommitAs("sort", handleSort(state, dragItem, dragOverItem))
                 /\ dragItem' = Null
                 /\ dragOverItem' = Null
       ELSE /\ Observe("dragLost")
            /\ UNCHANGED <<dragItem, dragOverItem>>
    /\ UNCHANGED <<toast, isKeyConfigured, requests, stories, fresh, audioVars, wavVars>>

\* onClick of version v in the versions panel (App.tsx:1011-1016)
RestoreVersion(v) ==
    /\ MainScreen
    /\ v \in DOMAIN state.doc.versions
    /\ CommitAs("restore",
                [state EXCEPT !.doc.story = state.doc.versions[v].story,
                              !.doc.scenes = state.doc.versions[v].scenes])
    /\ toast' = SuccessToast("Vision restored!")
    /\ lastReq' = NoRequest
    /\ UNCHANGED <<isKeyConfigured, requests, stories, fresh, dragVars, audioVars, wavVars>>

UserStartsDrag ==
    \E i \in 0..(Len(state.doc.scenes) - 1) : HandleDragStart(i)

UserDragsOver ==
    \E j \in 0..(Len(state.doc.scenes) - 1) : HandleDragEnter(j)

UserDrops ==
    /\ commits < MaxStoryCommits
    /\ HandleDragEnd

UserRestores ==
    /\ commits < MaxStoryCommits
    /\ \E v \in DOMAIN state.doc.versions : RestoreVersion(v)

StoryEditTheme ==
    /\ commits < MaxStoryCommits
    /\ EditTheme(OtherTheme(state.doc.theme))

StoryGenerates ==
    /\ commits < MaxStoryCommits
    /\ UserGeneratesStory

NextStory ==
    \/ StoryGenerates
    \/ StreamChunk
    \/ StreamEnds
    \/ StreamBreaks
    \/ UserStartsDrag
    \/ UserDragsOver
    \/ UserDrops
    \/ UserRestores
    \/ StoryEditTheme
    \/ LongUndo
    \/ LongRedo

SpecStory == InitGen /\ [][NextStory]_vars

\* Generation requests, their responses and undo / redo.
NextGen ==
    \/ UserTriggersImage
    \/ UserTriggersAudio
    \/ UserTriggersAvatar
    \/ ServiceResolves
    \/ ServiceBreaks
    \/ DismissToast
    \/ LongUndo
    \/ LongRedo

SpecGen == InitGen /\ [][NextGen]_vars

MaxReorderSteps == 3   \* effort the user spends per run of SpecReorder

ReorderTriggersImage == Effort < MaxReorderSteps /\ UserTriggersImage

ReorderTriggersAudio == Effort < MaxReorderSteps /\ UserTriggersAudio

ReorderTriggersAvatar == Effort < MaxReorderSteps /\ UserTriggersAvatar

ReorderDrops == Effort < MaxReorderSteps /\ UserDrops

\* Generation requests and their responses while scenes are reordered.
NextReorder ==
    \/ ReorderTriggersImage
    \/ ReorderTriggersAudio
    \/ ReorderTriggersAvatar
    \/ ServiceResolves
    \/ ServiceBreaks
    \/ UserStartsDrag
    \/ UserDragsOver
    \/ ReorderDrops

SpecReorder == InitGen /\ [][NextReorder]_vars

MaxSortSteps == 4   \* effort the user spends per run of SpecSort

SortGenerates == Effort < MaxSortSteps /\ UserGeneratesStory

SortDrops == Effort < MaxSortSteps /\ UserDrops

SortRestores == Effort < MaxSortSteps /\ UserRestores

SortUndo == Effort < MaxSortSteps /\ LongUndo

SortRedo == Effort < MaxSortSteps /\ LongRedo

\* Everything that writes the scenes list: story generation, reorder,
\* version restore, undo and redo.
NextSort ==
    \/ SortGenerates
    \/ StreamChunk
    \/ StreamEnds
    \/ StreamBreaks
    \/ UserStartsDrag
    \/ UserDragsOver
    \/ SortDrops
    \/ SortRestores
    \/ SortUndo
    \/ SortRedo

SpecSort == InitGen /\ [][NextSort]_vars

----------------------------------------------------------------------------
(* The key and the voice test (App.tsx:171-177, 411-444, 481-486) *)

\* A buffer source started for a scene, or for the voice sample
\* (scene = None); phase "stopped" once stop() was called on it.
Source(sid, scene) == [sid |-> sid, scene |-> scene, phase |-> "playing"]

\* audioSourceRef.current.stop() of stopAudio (App.tsx:459-462): the
\* source the ref holds stops; stop() on a source that has ended does
\* nothing.
Stopped(ss, ref) ==
    {IF x.sid = ref THEN [x EXCEPT !.phase = "stopped"] ELSE x : x \in ss}

\* a stopAudio that leaves isTestingVoice alone
stopAudio_KeepsTesting ==
    /\ sources' = Stopped(sources, audioSourceRef)
    /\ audioSourceRef' = Null
    /\ playingAudioId' = Null
    /\ UNCHANGED isTestingVoice

\* stopAudio (App.tsx:458-467)
stopAudio ==
    /\ sources' = Stopped(sources, audioSourceRef)
    /\ audioSourceRef' = Null
    /\ playingAudioId' = Null
    /\ isTestingVoice' = FALSE

\* handleTestVoice up to its await (App.tsx:411-425); the Test Voice button
\* is disabled while isTestingVoice (App.tsx:583-584).  The handler calls
\* setIsTestingVoice(true) and then stopAudio, whose setIsTestingVoice(false)
\* is the last update of the batch.
HandleTestVoice ==
    /\ MainScreen
    /\ ~isTestingVoice
    /\ stopAudio
    /\ voiceCalls' = voiceCalls + 1
    /\ UNCHANGED <<saveVars, state, heap, lastOp, pre, commits, navs, loaded,
                   discarded, toast, isKeyConfigured, requests, stories,
                   fresh, lastReq, dragVars, srcs, lastCall, wavVars>>

\* generateVoiceOver of a voice test rejected, or its payload did not
\* decode: the catch block (App.tsx:439-443).
TestVoiceFails(auth) ==
    /\ voiceCalls > 0
    /\ voiceCalls' = voiceCalls - 1
    /\ HandleApiError(auth)
    /\ isTestingVoice' = FALSE
    /\ Observe("voiceFail")
    /\ lastReq' = NoRequest
    /\ UNCHANGED <<requests, stories, fresh, dragVars, playingAudioId,
                   audioSourceRef, sources, srcs, lastCall, wavVars>>

\* The sample of a voice test starts playing (App.tsx:427-438): the ref
\* takes the new source; nothing is stopped.
TestVoicePlays ==
    /\ voiceCalls > 0
    /\ voiceCalls' = voiceCalls - 1
    /\ sources' = sources \cup {Source(srcs + 1, None)}
    /\ audioSourceRef' = srcs + 1
    /\ srcs' = srcs + 1
    /\ UNCHANGED <<saveVars, state, heap, lastOp, pre, commits, navs, loaded,
                   discarded, toast, isKeyConfigured, requests, stories,
                   fresh, lastReq, dragVars, isTestingVoice, playingAudioId,
                   lastCall, wavVars>>

\* The ended event of source x arrives, after the source played to its end
\* or after stop(): source.onended of playSceneAudio (App.tsx:399) or of
\* handleTestVoice (App.tsx:435).
SourceEnded(x) ==
    /\ x \in sources
    /\ sources' = sources \ {x}
    /\ IF x.scene = None
       THEN isTestingVoice' = FALSE /\ UNCHANGED playingAudioId
       ELSE playingAudioId' = Null /\ UNCHANGED isTestingVoice
    /\ UNCHANGED <<saveVars, state, heap, lastOp, pre, commits, navs, loaded,
                   discarded, toast, isKeyConfigured, requests, stories,
                   fresh, lastReq, dragVars, voiceCalls, audioSourceRef,
                   srcs, lastCall, wavVars>>

VoiceTestFails == \E auth \in BOOLEAN : TestVoiceFails(auth)

MaxVoiceTests == 1  \* voice tests per run of SpecAuth

\* click on the Test Voice button
AuthTestsVoice == voiceCalls + srcs < MaxVoiceTests /\ HandleTestVoice

MaxAuthSteps == 2   \* effort the user spends per run of SpecAuth

AuthTriggersImage == Effort < MaxAuthSteps /\ UserTriggersImage

AuthTriggersAudio == Effort < MaxAuthSteps /\ UserTriggersAudio

AuthTriggersAvatar == Effort < MaxAuthSteps /\ UserTriggersAvatar

AuthGeneratesStory == Effort < MaxAuthSteps /\ UserGeneratesStory

\* The stream delivers a chunk as long as the run is within its effort.
AuthStreamChunk == Effort <= MaxAuthSteps /\ StreamChunk

\* A stored project of one scene.
OneSceneDoc ==
    FullDoc(DefaultTitle, "A", <<Scene(StoredSceneIds[1], 0, TRUE)>>,
            DefaultCharacters, <<>>, None)

\* The component right after construction: the key not yet checked, and the
\* project stored by an earlier session.
InitAuth ==
    /\ loaded = TRUE
    /\ heap = <<BareEntry(OneSceneDoc)>>
    /\ state = LoadedProject
    /\ lastOp = "init"
    /\ pre = state
    /\ commits = 0
    /\ navs = 0
    /\ discarded = {}
    /\ InitEnv("null")

NextAuth ==
    \/ CheckKey
    \/ ConnectGemini
    \/ AuthTriggersImage
    \/ AuthTriggersAudio
    \/ AuthTriggersAvatar
    \/ ServiceResolves
    \/ ServiceRejects
    \/ AuthGeneratesStory
    \/ AuthStreamChunk
    \/ StreamEnds
    \/ StreamFails
    \/ AuthTestsVoice
    \/ VoiceTestFails

SpecAuth == InitAuth /\ [][NextAuth]_vars

----------------------------------------------------------------------------
(* Playback and download of scene audio (App.tsx:377-409, 446-467) *)

MaxPlays == 2   \* buffer sources and voice tests per run of SpecAudio

\* a check that asks for the scene only, not for its payload
HasAudio_AnyPayload(s, id) == id \in SceneIds(s)

\* scene && scene.audio?.data (App.tsx:378-379, 447): the scene exists and
\* its payload is neither missing nor empty.
HasAudio(s, id) == id \in SceneIds(s) /\ SceneById(s, id).audio.data # None

Call(op, id, done) ==
    [op |-> op, scene |-> id, flip |-> ~lastCall.flip, done |-> done]

\* playSceneAudio(id) (App.tsx:377-409).  decodeAudioData is an async
\* function that awaits nothing, so the code after the await runs before
\* any other event; ok tells whether decode and decodeAudioData returned
\* (atob and new Int16Array throw on a payload that is not base64 or of odd
\* length, App.tsx:44-58).
PlaySceneAudio(id, ok) ==
    /\ MainScreen
    /\ IF ~HasAudio(state, id)
       THEN /\ lastCall' = Call("play", id, FALSE)
            /\ UNCHANGED <<isTestingVoice, playingAudioId, audioSourceRef,
                           sources, srcs, toast>>
       ELSE /\ lastCall' = Call("play", id, TRUE)
            /\ IF playingAudioId = id
               THEN stopAudio /\ UNCHANGED <<srcs, toast>>
               ELSE IF ok
               THEN /\ sources' = Stopped(sources, audioSourceRef)
                                    \cup {Source(srcs + 1, id)}
                    /\ audioSourceRef' = srcs + 1
                    /\ srcs' = srcs + 1
                    /\ playingAudioId' = id
                    /\ isTestingVoice' = FALSE
                    /\ UNCHANGED toast
               ELSE /\ stopAudio
                    /\ toast' = ErrorToast("Playback error")
                    /\ UNCHANGED srcs
    /\ UNCHANGED <<saveVars, state, heap, lastOp, pre, commits, navs, loaded,
                   discarded, isKeyConfigured, requests, stories, fresh,
                   lastReq, dragVars, voiceCalls, wavVars>>

\* downloadSceneAudio(scene) (App.tsx:446-456): with a payload, a file is
\* offered to the user; no state of the component is set.
DownloadSceneAudio(id) ==
    /\ MainScreen
    /\ id \in SceneIds(state)
    /\ lastCall' = Call("download", id, HasAudio(state, id))
    /\ UNCHANGED <<saveVars, state, heap, lastOp, pre, commits, navs, loaded,
                   discarded, toast, isKeyConfigured, requests, stories,
                   fresh, lastReq, dragVars, isTestingVoice, voiceCalls,
                   playingAudioId, audioSourceRef, sources, srcs, wavVars>>

\* The id of a scene that is not in the document (any more).
GoneSceneId == 999

\* A stored project of three scenes: two with a voiceover payload, one
\* without.
AudioSceneIds == <<101, 102, 103>>
WithAudio(sc, data) ==
    [sc EXCEPT !.audio = [status |-> "completed", data |-> data]]
StoredAudioDoc ==
    FullDoc(DefaultTitle, "A",
            <<WithAudio(Scene(AudioSceneIds[1], 0, TRUE), 1),
              WithAudio(Scene(AudioSceneIds[2], 1, TRUE), 2),
              Scene(AudioSceneIds[3], 2, TRUE)>>,
            DefaultCharacters, <<>>, None)

InitAudio ==
    /\ loaded = TRUE
    /\ heap = <<BareEntry(StoredAudioDoc)>>
    /\ state = LoadedProject
    /\ lastOp = "init"
    /\ pre = state
    /\ commits = 0
    /\ navs = 0
    /\ discarded = {}
    /\ InitEnv("true")

\* playSceneAudio is called; a call that starts a source is within the
\* bound of the run.
AudioPlays ==
    \E id \in SceneIds(state) \cup {GoneSceneId}, ok \in BOOLEAN :
        /\ (HasAudio(state, id) /\ playingAudioId # id /\ ok)
              => voiceCalls + srcs < MaxPlays
        /\ PlaySceneAudio(id, ok)

AudioDownloads == \E id \in SceneIds(state) : DownloadSceneAudio(id)

\* click on the Test Voice button
AudioTestsVoice == voiceCalls + srcs < MaxPlays /\ HandleTestVoice

\* The ended event of a source arrives.
AudioEnds == \E x \in sources : SourceEnded(x)

NextAudio ==
    \/ AudioPlays
    \/ AudioDownloads
    \/ AudioTestsVoice
    \/ TestVoicePlays
    \/ VoiceTestFails
    \/ AudioEnds

SpecAudio == InitAudio /\ [][NextAudio]_vars

----------------------------------------------------------------------------
(* The WAV encoder (App.tsx:74-110) *)

MaxPcmLen == 3      \* length of the short PCM inputs
LongPcmLen == 300   \* length of the long PCM input: more than one size byte

\* 'c'.charCodeAt(0) for the characters of the header
CharCode ==
    [c \in {"R", "I", "F", "W", "A", "V", "E", "f", "m", "t", " ", "d", "a"} |->
        CASE c = "R" -> 82 [] c = "I" -> 73 [] c = "F" -> 70 [] c = "W" -> 87
          [] c = "A" -> 65 [] c = "V" -> 86 [] c = "E" -> 69 [] c = "f" -> 102
          [] c = "m" -> 109 [] c = "t" -> 116 [] c = " " -> 32
          [] c = "d" -> 100 [] c = "a" -> 97]

\* new ArrayBuffer(n): n zero bytes; byte offset k is element k + 1.
ArrayBuffer(n) == [i \in 1..n |-> 0]

\* DataView.setUint8(off, v)
SetUint8(buf, off, v) == [buf EXCEPT ![off + 1] = v % 256]

\* a setUint16 that writes the high byte first
SetUint16_BigEndian(buf, off, v) ==
    SetUint8(SetUint8(buf, off, v \div 256), off + 1, v)

\* DataView.setUint16(off, v, true): low byte first
SetUint16(buf, off, v) ==
    SetUint8(SetUint8(buf, off, v), off + 1, v \div 256)

\* a setUint32 that writes the high byte first
SetUint32_BigEndian(buf, off, v) ==
    SetUint8(SetUint8(SetUint8(SetUint8(buf,
        off, (v \div 65536) \div 256), off + 1, v \div 65536),
        off + 2, v \div 256), off + 3, v)

\* DataView.setUint32(off, v, true): the low 32 bits of v, low byte first
SetUint32(buf, off, v) ==
    SetUint8(SetUint8(SetUint8(SetUint8(buf,
        off, v), off + 1, v \div 256),
        off + 2, v \div 65536), off + 3, (v \div 65536) \div 256)

\* The four setUint8 calls that write string str at offset off
SetChars(buf, off, str) ==
    SetUint8(SetUint8(SetUint8(SetUint8(buf,
        off, CharCode[str[1]]), off + 1, CharCode[str[2]]),
        off + 2, CharCode[str[3]]), off + 3, CharCode[str[4]])

\* createWavBlob(pcmData, sampleRate) (App.tsx:74-110): the bytes of the
\* Blob made of the header and pcmData.
createWavBlob(pcmData, sampleRate) ==
    LET h0 == ArrayBuffer(44)
        h1 == SetChars(h0, 0, <<"R", "I", "F", "F">>)
        h2 == SetUint32(h1, 4, 36 + Len(pcmData))
        h3 == SetChars(h2, 8, <<"W", "A", "V", "E">>)
        h4 == SetChars(h3, 12, <<"f", "m", "t", " ">>)
        h5 == SetUint32(h4, 16, 16)
        h6 == SetUint16(h5, 20, 1)
        h7 == SetUint16(h6, 22, 1)
        h8 == SetUint32(h7, 24, sampleRate)
        h9 == SetUint32(h8, 28, sampleRate * 2)
        h10 == SetUint16(h9, 32, 2)
        h11 == SetUint16(h10, 34, 16)
        h12 == SetChars(h11, 36, <<"d", "a", "t", "a">>)
        header == SetUint32(h12, 40, Len(pcmData))
    IN  header \o pcmData

\* The inputs: every byte sequence over PcmBytes of up to MaxPcmLen bytes,
\* one long sequence, and the sample rates.
PcmBytes == {0, 127, 255}
PcmInputs ==
    UNION {[1..n -> PcmBytes] : n \in 0..MaxPcmLen}
        \cup {[i \in 1..LongPcmLen |-> (i * 7) % 256]}
SampleRates == {8000, 24000, 44100, 96000, 20000000}

\* A call of createWavBlob returns.
Encode ==
    /\ wav.out = <<>>
    /\ wav' = [wav EXCEPT !.out = createWavBlob(wav.pcm, wav.rate)]
    /\ UNCHANGED <<state, heap, lastOp, pre, commits, navs, loaded, discarded,
                   toast, isKeyConfigured, requests, stories, fresh, lastReq,
                   dragVars, audioVars, saveVars>>

InitWav ==
    /\ loaded = FALSE
    /\ heap = <<>>
    /\ state = NewProject
    /\ lastOp = "init"
    /\ pre = state
    /\ commits = 0
    /\ navs = 0
    /\ discarded = {}
    /\ InitRest("true")
    /\ \E p \in PcmInputs, r \in SampleRates :
          wav = [pcm |-> p, rate |-> r, out |-> <<>>]

NextWav == Encode

SpecWav == InitWav /\ [][NextWav]_vars

----------------------------------------------------------------------------
(* Saving to local storage and loading from it (App.tsx:114-156, 227-233) *)

MaxSaveSteps == 3   \* edits, undo and redo clicks per run of SpecSave

\* The callback of the oldest pending timer runs (App.tsx:228-231): it
\* writes the save data of the state its render saw.
TimerFires ==
    /\ timers # <<>>
    /\ storage' = <<SaveData(Head(timers))>>
    /\ timers' = Tail(timers)
    /\ UNCHANGED <<state, heap, lastOp, pre, commits, navs, loaded, discarded,
                   envVars>>

\* The initial state made of the parsed record r (App.tsx:116-126)
Loaded(r) ==
    [doc |-> r.doc, history |-> <<1>>, historyIndex |-> 0,
     isStreaming |-> FALSE, streamingContent |-> <<>>]

\* The page is loaded again: the component is constructed from what local
\* storage holds (App.tsx:113-169); the timers, calls and sources of the
\* page before are gone with it.
Reload ==
    /\ IF storage = NoRecord
       THEN /\ loaded' = FALSE
            /\ heap' = <<>>
            /\ state' = NewProject
            /\ timers' = <<NewProject>>
       ELSE /\ loaded' = TRUE
            /\ heap' = <<BareEntry(storage[1].doc)>>
            /\ state' = Loaded(storage[1])
            /\ timers' = <<Loaded(storage[1])>>
    /\ lastOp' = "load"
    /\ pre' = state
    /\ discarded' = {}
    /\ toast' = NoToast
    /\ isKeyConfigured' = "null"
    /\ requests' = {}
    /\ stories' = {}
    /\ lastReq' = NoRequest
    /\ dragItem' = Null
    /\ dragOverItem' = Null
    /\ dragSource' = Null
    /\ isTestingVoice' = FALSE
    /\ voiceCalls' = 0
    /\ playingAudioId' = Null
    /\ audioSourceRef' = Null
    /\ sources' = {}
    /\ lastCall' = NoCall
    /\ UNCHANGED <<commits, navs, fresh, srcs, storage, wavVars>>

SaveEditsTheme ==
    /\ commits + navs < MaxSaveSteps
    /\ \E th \in Themes : EditTheme(th)

SaveUndo ==
    /\ commits + navs < MaxSaveSteps
    /\ UndoStep
    /\ navs' = navs + 1

SaveRedo ==
    /\ commits + navs < MaxSaveSteps
    /\ RedoStep
    /\ navs' = navs + 1

NextSave ==
    \/ SaveEditsTheme
    \/ SaveUndo
    \/ SaveRedo
    \/ TimerFires
    \/ Reload
    \/ CheckKey
    \/ ConnectGemini

\* A new project, or a stored project of theme "A".
InitSave == InitFrom({DefaultTitle}, {"A"}) /\ InitEnv("true")

SpecSave == InitSave /\ [][NextSave]_vars

\* A timer that is not cleared fires after its delay (App.tsx:228, 231).
SpecSaveLive == SpecSave /\ WF_vars(TimerFires)

----------------------------------------------------------------------------
(* Story generation from a draft: a new project has no theme yet *)

MaxDraftSteps == 4  \* effort the user spends per run of SpecDraft

DraftGenerates == Effort < MaxDraftSteps /\ UserGeneratesStory

DraftEditsTheme ==
    /\ Effort < MaxDraftSteps
    /\ \E th \in Themes \cup {""} : EditTheme(th)

DraftUndo ==
    /\ Effort < MaxDraftSteps
    /\ UndoStep
    /\ navs' = navs + 1

DraftRedo ==
    /\ Effort < MaxDraftSteps
    /\ RedoStep
    /\ navs' = navs + 1

\* The stream delivers a chunk as long as the run is within its effort.
DraftStreamChunk == Effort <= MaxDraftSteps /\ StreamChunk

\* A new project, or the stored project of two scenes.
InitDraft ==
    /\ \/ /\ loaded = FALSE
          /\ heap = <<>>
          /\ state = NewProject
       \/ /\ loaded = TRUE
          /\ heap = <<BareEntry(StoredDoc)>>
          /\ state = LoadedProject
    /\ lastOp = "init"
    /\ pre = state
    /\ commits = 0
    /\ navs = 0
    /\ discarded = {}
    /\ InitEnv("true")

NextDraft ==
    \/ DraftGenerates
    \/ DraftStreamChunk
    \/ StreamEnds
    \/ StreamFails
    \/ DraftEditsTheme
    \/ DraftUndo
    \/ DraftRedo

SpecDraft == InitDraft /\ [][NextDraft]_vars

----------------------------------------------------------------------------
(* Properties *)

\* The documents of the entries of history array h, in order.
HistDocs(h) == [i \in 1..Len(h) |-> heap[h[i]].doc]

RECURSIVE UndoTimes(_, _)
UndoTimes(s, j) == IF j = 0 THEN s ELSE UndoTimes(undo(s), j - 1)

\* The address whose snapshot the last undo / redo made the active
\* document, 0 if the last handler activated none.
Activated ==
    IF lastOp = "undo" /\ pre.historyIndex > 0
          /\ Defined(pre.history, pre.historyIndex - 1)
    THEN pre.history[pre.historyIndex]
    ELSE IF lastOp = "redo" /\ pre.historyIndex < Len(pre.history) - 1
    THEN pre.history[pre.historyIndex + 2]
    ELSE 0

\* C1: undo followed by redo restores the state: in every reachable state
\* with historyIndex > 0, redo(undo(state)) has the same active document,
\* the same history entries and the same historyIndex as the state.
C1_UndoThenRedoRestores ==
    state.historyIndex > 0 =>
        LET r == redo(undo(state))
        IN  /\ r.doc = state.doc
            /\ HistDocs(r.history) = HistDocs(state.history)
            /\ r.historyIndex = state.historyIndex

\* C2: in every reachable state historyIndex is a valid index of history:
\* 0 <= historyIndex <= history.length - 1.
C2_CursorInRange ==
    /\ 0 <= state.historyIndex
    /\ state.historyIndex <= Len(state.history) - 1

\* C3: in every reachable state history[historyIndex] exists and holds the
\* same document fields as the active document.
C3_CursorPointsAtCurrent ==
    /\ Defined(state.history, state.historyIndex)
    /\ At(state.history, state.historyIndex).doc = state.doc

\* C4: when the history is [e0..en] with the cursor at n, j undos
\* (0 < j <= n) followed by a commit of d give the history [e0..e(n-j), d]
\* (its last 50 entries) with the cursor on d.
C4_CommitAfterUndoKeepsPrefix ==
    LET n == Len(state.history) - 1
    IN  (state.historyIndex = n /\ n >= 1) =>
          \A j \in 1..n : \A th \in Themes \ {UndoTimes(state, j).doc.theme} :
            LET u == UndoTimes(state, j)
                d == Len(heap) + 1
                c == commitH(heap, u, [u EXCEPT !.doc.theme = th]).state
                expected == SliceLast(Append(SubSeq(state.history, 1, n - j + 1), d),
                                      HistoryCap)
            IN  /\ c.history = expected
                /\ c.historyIndex = Len(expected) - 1

\* C5: a snapshot cut off by a commit at an interior cursor never becomes
\* the active document again, whatever undo, redo and commit follow.
C5_DiscardedNeverActive == Activated \notin discarded

\* C6: undo and redo leave the list of history entries as it was; only a
\* commit changes it.
C6_NavKeepsHistory ==
    lastOp \in {"undo", "redo"} => state.history = pre.history

\* C7: away from the boundary, undo (redo) moves the cursor by exactly one
\* and makes the entry that was at the neighbouring index the active
\* document; committing theme a, then theme b, then one undo yields theme a.
C7_NavMovesByOne ==
    /\ (lastOp = "undo" /\ pre.historyIndex > 0) =>
          /\ state.historyIndex = pre.historyIndex - 1
          /\ Defined(pre.history, pre.historyIndex - 1)
          /\ state.doc = At(pre.history, pre.historyIndex - 1).doc
    /\ (lastOp = "redo" /\ pre.historyIndex < Len(pre.history) - 1) =>
          /\ state.historyIndex = pre.historyIndex + 1
          /\ state.doc = At(pre.history, pre.historyIndex + 1).doc
    /\ \A a \in Themes \ {state.doc.theme} : \A b \in Themes \ {a} :
          LET c1 == commitH(heap, state, [state EXCEPT !.doc.theme = a])
              c2 == commitH(c1.heap, c1.state, [c1.state EXCEPT !.doc.theme = b])
          IN  undoH(c2.heap, c2.state).doc.theme = a

\* A redo away from the ceiling has just activated an entry whose document
\* differs from the one before, after an earlier undo.
C7_Witness ==
    /\ lastOp = "redo"
    /\ pre.historyIndex < Len(pre.history) - 1
    /\ state.historyIndex = pre.historyIndex + 1
    /\ state.doc # pre.doc

C9_CursorIsCommitsMinusOne ==
    (navs = 0 /\ commits >= 1) =>
        /\ state.historyIndex = Min(commits - 1, HistoryCap - 1)
        /\ Defined(state.history, state.historyIndex)
        /\ state.history[state.historyIndex + 1] = Len(heap)
        /\ At(state.history, state.historyIndex).doc = state.doc

\* C9 amended: after N >= 1 commits and no undo or redo, historyIndex is
\* N - 1 from a new project and N from a loaded project (49 at most), and
\* history[historyIndex] is the last committed document.
C9_CursorAfterCommits ==
    (navs = 0 /\ commits >= 1) =>
        /\ state.historyIndex =
              Min(commits - 1 + (IF loaded THEN 1 ELSE 0), HistoryCap - 1)
        /\ Defined(state.history, state.historyIndex)
        /\ state.history[state.historyIndex + 1] = Len(heap)
        /\ At(state.history, state.historyIndex).doc = state.doc

\* More than 50 commits were made without undo or redo.
C9_Witness ==
    /\ navs = 0
    /\ commits > HistoryCap
    /\ state.historyIndex = HistoryCap - 1

\* C10: history never holds more than 50 entries; right after a commit the
\* cursor is history.length - 1, and a commit on a full history whose cursor
\* is at the tail drops the oldest entry from the front.
C10_HistoryCapped ==
    /\ Len(state.history) <= HistoryCap
    /\ lastOp = "commit" =>
          /\ state.historyIndex = Len(state.history) - 1
          /\ state.history[Len(state.history)] = Len(heap)
          /\ (Len(pre.history) = HistoryCap /\ pre.historyIndex = HistoryCap - 1) =>
                state.history = Append(Tail(pre.history), Len(heap))

\* A commit has just been made on a full history, after some undo or redo.
C10_Witness ==
    /\ lastOp = "commit"
    /\ Len(pre.history) = HistoryCap
    /\ pre.historyIndex = HistoryCap - 1
    /\ Len(state.history) = HistoryCap
    /\ navs > 0

\* C11: every history entry is a self-contained project snapshot: no entry
\* of history carries a history list or a cursor of its own.
C11_EntriesSelfContained ==
    \A i \in 1..Len(state.history) : ~heap[state.history[i]].full

\* The sub-state of the entity request r is about in state s: the image or
\* the audio of a scene, or a character; NoEntity if s has no such entity.
NoEntity == [status |-> "absent"]
Entity(s, r) ==
    CASE r.kind = "image" /\ r.target \in SceneIds(s) -> SceneById(s, r.target).image
      [] r.kind = "audio" /\ r.target \in SceneIds(s) -> SceneById(s, r.target).audio
      [] r.kind = "avatar" /\ r.target \in CharIds(s) ->
            [status |-> CharById(s, r.target).status,
             url |-> CharById(s, r.target).referenceImage]
      [] OTHER -> NoEntity

\* The entities of state s, as requests would name them.
EntityKeys(s) ==
    {[kind |-> k, target |-> id] : k \in {"image", "audio"}, id \in SceneIds(s)}
        \cup {[kind |-> "avatar", target |-> id] : id \in CharIds(s)}

\* Request r is stale: a later request was issued for the same entity.
Stale(r) ==
    \E q \in requests : q.kind = r.kind /\ q.target = r.target /\ q.rid > r.rid

\* C13: a stale response never overwrites a newer one: the response of a
\* request is not applied to its entity when a later request was issued
\* for the same entity.
C13_StaleResponseNotApplied ==
    (lastOp \in {"resolve", "reject"} /\ Stale(lastReq)) =>
        Entity(state, lastReq) = Entity(pre, lastReq)

\* C14: in every step the status of a scene image, scene audio or character
\* becomes completed or error only if it was generating just before.
C14_PhasesInOrder ==
    \A k \in EntityKeys(state) \cap EntityKeys(pre) :
        (/\ Entity(state, k).status \in {"completed", "error"}
         /\ Entity(state, k).status # Entity(pre, k).status)
            => Entity(pre, k).status = "generating"

\* C15: applying the result or the failure of a request for entity X
\* changes only X: every other scene image, scene audio and character, the
\* order of the scenes and the rest of the document stay as they were.
C15_ResponseChangesOnlyTarget ==
    lastOp \in {"resolve", "reject"} =>
        /\ EntityKeys(state) = EntityKeys(pre)
        /\ \A k \in EntityKeys(pre) :
              (k.kind # lastReq.kind \/ k.target # lastReq.target)
                  => Entity(state, k) = Entity(pre, k)
        /\ Len(state.doc.scenes) = Len(pre.doc.scenes)
        /\ \A i \in DOMAIN pre.doc.scenes :
              /\ state.doc.scenes[i].id = pre.doc.scenes[i].id
              /\ state.doc.scenes[i].order = pre.doc.scenes[i].order
              /\ state.doc.scenes[i].vo = pre.doc.scenes[i].vo
        /\ state.doc.title = pre.doc.title
        /\ state.doc.theme = pre.doc.theme
        /\ state.doc.versions = pre.doc.versions
        /\ state.doc.story = pre.doc.story

\* A response was applied to its entity while another entity was generating.
C15_Witness ==
    /\ lastOp = "resolve"
    /\ Entity(state, lastReq) # Entity(pre, lastReq)
    /\ \E k \in EntityKeys(state) :
          /\ (k.kind # lastReq.kind \/ k.target # lastReq.target)
          /\ Entity(state, k).status = "generating"
    /\ state.doc.scenes[1].id # StoredSceneIds[1]

\* C16: when the AI call of a trigger handler rejects, the targeted entity
\* (if the document still has it) gets status error, an error toast is set
\* and no AI request is issued by that step.
C16_FailureMarksError ==
    [][(lastOp' = "reject" /\ commits' = commits + 1) =>
          /\ Entity(state', lastReq') # NoEntity
                => Entity(state', lastReq').status = "error"
          /\ toast'.type = "error"
          /\ {q.rid : q \in requests'} = {q.rid : q \in requests}
          /\ Pending' = Pending \ {lastReq'}]_vars

\* A rejected call has just marked its entity error, with an error toast.
C16_Witness ==
    /\ lastOp = "reject"
    /\ lastReq.phase = "pending"
    /\ Entity(state, lastReq).status = "error"
    /\ Entity(pre, lastReq).status = "generating"
    /\ toast.type = "error"

\* C12: archived versions are independent of the undo / redo history: no
\* undo or redo adds an entry to or removes an entry from the versions list
\* of the active document.
C12_NavKeepsVersions ==
    lastOp \in {"undo", "redo"} => state.doc.versions = pre.doc.versions

\* The story, image, audio and avatar calls that were rejected so far
FailedCalls ==
    {r.rid : r \in {q \in requests : q.phase = "rejected"}}
        \cup {st.rid : st \in {q \in stories : q.phase = "rejected"}}

AuthToast == ErrorToast("API Key invalid or Project not found. Please re-connect.")

\* C17: whenever an AI call (story, image, audio, avatar or voice test)
\* fails with the signature "Requested entity was not found",
\* isKeyConfigured becomes false, and it stays false until connectGemini
\* sets it.
C17_AuthFailureDowngrades ==
    [][/\ (/\ \/ FailedCalls' # FailedCalls
              \/ voiceCalls' < voiceCalls /\ srcs' = srcs
           /\ toast' = AuthToast)
          => isKeyConfigured' = "false"
       /\ (isKeyConfigured = "false" /\ isKeyConfigured' # "false")
          => (lastOp' = "connect" /\ isKeyConfigured' = "true")]_vars

\* The key was lost to a failed call, then selected again.
C17_Witness ==
    /\ lastOp = "connect"
    /\ isKeyConfigured = "true"
    /\ toast = AuthToast
    /\ \E st \in stories : st.phase = "rejected"
    /\ \E r \in requests : r.phase = "rejected"
    /\ voiceCalls > 0

IsPrefix(a, b) == Len(a) <= Len(b) /\ SubSeq(b, 1, Len(a)) = a

\* C18: during a story generation the streamed text only grows: from the
\* start of a stream until it terminates every new value of
\* streamingContent has the previous value as a prefix, whatever other
\* events occur meanwhile; and a chunk replaces neither story, scenes nor
\* versions.
C18_StreamOnlyGrows ==
    [][/\ (Streaming # {} /\ {st.rid : st \in Streaming'} = {st.rid : st \in Streaming})
          => IsPrefix(state.streamingContent, state'.streamingContent)
       /\ (lastOp' = "chunk" /\ stories' # stories)
          => state'.doc = state.doc]_vars

\* The ids of the scenes of state s, and how often id occurs among them.
AllSceneIds(s) == {s.doc.scenes[i].id : i \in DOMAIN s.doc.scenes}
CountId(s, id) == Cardinality({i \in DOMAIN s.doc.scenes : s.doc.scenes[i].id = id})

\* C19: for every reorder committed by handleSort the scenes after the
\* reorder are a permutation of the scenes before it: same set of ids, same
\* count.
C19_SortIsPermutation ==
    lastOp = "sort" =>
        /\ Len(state.doc.scenes) = Len(pre.doc.scenes)
        /\ AllSceneIds(state) = AllSceneIds(pre)
        /\ \A id \in AllSceneIds(pre) : CountId(state, id) = CountId(pre, id)

\* A drop moved a scene while a story was streaming.
C19_Witness ==
    /\ lastOp = "sort"
    /\ state.doc.scenes # pre.doc.scenes
    /\ state.isStreaming
    /\ state.streamingContent # <<>>

\* C20: in every reachable state the scene at position i of the scenes list
\* has order = i (0-based), so the order fields are exactly 0..N-1.
C20_OrderIsPosition ==
    \A i \in DOMAIN state.doc.scenes : state.doc.scenes[i].order = i - 1

\* An undo or redo exchanged the scenes for the same scenes in another order.
C20_Witness ==
    /\ lastOp \in {"undo", "redo"}
    /\ state.doc.scenes # pre.doc.scenes
    /\ Len(state.doc.scenes) >= 2
    /\ AllSceneIds(state) = AllSceneIds(pre)

\* The entities of state s whose status is generating.
Generating(s) == {k \in EntityKeys(s) : Entity(s, k).status = "generating"}

\* C26: in every reachable state in which no generation request is in
\* flight, no scene image, scene audio or character has status generating.
C26_NoGeneratingWithoutRequest ==
    Pending = {} => Generating(state) = {}

\* C27: isStreaming is true only while a story generation request is in
\* flight: when none is, isStreaming is false and streamingContent is empty.
C27_StreamingOnlyInFlight ==
    Streaming = {} => (~state.isStreaming /\ state.streamingContent = <<>>)

\* A step in which the callback of a save timer ran.
Wrote == timers # <<>> /\ timers' = Tail(timers)

\* A step in which the page was loaded: the key is not checked yet and the
\* timer of the first render is pending.
Loads ==
    /\ lastOp' = "load"
    /\ isKeyConfigured' = "null"
    /\ timers' = <<state'>>
    /\ loaded' = (storage # NoRecord)

\* C21: every record written to local storage holds the project snapshot
\* fields only (id, title, createdAt, updatedAt, idea, characters, story,
\* scenes, versions) and none of history, historyIndex, isStreaming,
\* streamingContent.
C21_RecordIsSnapshot ==
    [][Wrote => /\ storage'[1].keys = ProjectKeys
                /\ storage'[1].keys \cap RemovedKeys = {}]_vars

\* C22: saving is debounced and never writes stale data: every state change
\* cancels the pending timer and starts a new one, at most one save is
\* pending, every write stores the document of the latest state, once the
\* state stops changing the stored record eventually equals the current
\* document for good, and a state loaded from a stored record has a history
\* whose sole entry is the loaded document, with cursor 0.
C22_DebouncedSave ==
    /\ [](Len(timers) <= 1)
    /\ [][/\ state' # state => timers' = <<state'>>
          /\ Wrote => storage' = <<SaveData(state)>>
          /\ Loads /\ storage # NoRecord =>
                /\ state'.doc = storage[1].doc
                /\ state'.historyIndex = 0
                /\ Len(state'.history) = 1
                /\ AtH(heap', state'.history, 0).doc = storage[1].doc]_vars
    /\ <>[](storage # NoRecord /\ storage[1].doc = state.doc)

\* The page was loaded from a record this run had written (theme "B"),
\* and a later edit was saved in turn: no timer is pending and the record
\* is the document on screen, not the loaded one.
C22_Witness ==
    /\ loaded
    /\ heap[1].doc.theme = "B"
    /\ commits >= 2
    /\ timers = <<>>
    /\ storage # NoRecord
    /\ storage[1].doc = state.doc
    /\ state.doc.theme = "A"
    /\ state.historyIndex > 0

\* A step in which handler op ran, or a continuation of it.
Ran(op) == lastOp' = op /\ pre' = state

\* C29: a failed or rejected story generation leaves the document
\* untouched: a call of handleGenerateStory with an empty theme issues no
\* request and leaves isStreaming false; the start of a request, its chunks
\* and its failure (rejection, or text that does not parse) leave the
\* document, history and historyIndex as they were; a successful
\* generation commits exactly one history entry and prepends exactly one
\* version.
C29_FailedStoryLeavesDocument ==
    [][/\ Ran("notheme") =>
            /\ stories' = stories
            /\ requests' = requests
            /\ ~state'.isStreaming
            /\ state' = state
       /\ (Ran("generate") \/ Ran("chunk") \/ Ran("storyFail")) =>
            /\ state'.doc = state.doc
            /\ state'.history = state.history
            /\ state'.historyIndex = state.historyIndex
            /\ heap' = heap
       /\ Ran("storyFail") =>
            /\ ~state'.isStreaming
            /\ Cardinality(Streaming') = Cardinality(Streaming) - 1
       /\ Ran("storyDone") =>
            /\ Len(heap') = Len(heap) + 1
            /\ state'.history =
                  Append(SliceTo(state.history, state.historyIndex + 1),
                         Len(heap'))
            /\ state'.historyIndex = Len(state'.history) - 1
            /\ Len(state'.doc.versions) = Len(state.doc.versions) + 1
            /\ Tail(state'.doc.versions) = state.doc.versions
            /\ state'.doc.versions[1].scenes = state'.doc.scenes]_vars

\* The stream of a stored project failed after a chunk, while the document
\* had scenes and an edit made during the stream.
C29_Witness ==
    /\ lastOp = "storyFail"
    /\ \E st \in stories : st.phase = "rejected" /\ st.text # <<>>
    /\ pre.isStreaming
    /\ ~state.isStreaming
    /\ state.doc.scenes # <<>>
    /\ state.doc = pre.doc
    /\ commits >= 1

\* The scenes whose audio is playing: their source was started and neither
\* stopped nor played to its end.
PlayingScenes ==
    {x.scene : x \in {y \in sources : y.phase = "playing" /\ y.scene # None}}

\* The voice samples that are playing
PlayingSamples == {x \in sources : x.phase = "playing" /\ x.scene = None}

\* The audio payload of scene id in state s; None if it has none or is no
\* scene of s.
Payload(s, id) ==
    IF id \in SceneIds(s) THEN SceneById(s, id).audio.data ELSE None

\* C23: playSceneAudio or downloadSceneAudio called for a scene whose audio
\* payload is missing or empty, or playSceneAudio called for a scene id
\* that does not exist, changes no state (playingAudioId, document,
\* history), stops no playing audio, offers no file and raises no error
\* notification.
C23_NoPayloadNoOp ==
    [][(lastCall' # lastCall /\ Payload(state, lastCall'.scene) = None) =>
          /\ ~lastCall'.done
          /\ UNCHANGED <<state, heap, playingAudioId, audioSourceRef,
                         sources, srcs, isTestingVoice, toast, saveVars>>]_vars

\* playSceneAudio was called for a scene without payload while another
\* scene was playing, and that scene plays on.
C23_Witness ==
    /\ lastCall.op = "play"
    /\ ~lastCall.done
    /\ lastCall.scene \in SceneIds(state)
    /\ Payload(state, lastCall.scene) = None
    /\ playingAudioId # Null
    /\ PlayingScenes = {playingAudioId}

\* C28: in every reachable state playingAudioId is the id of the scene
\* whose audio source is playing, and is null when no scene audio is
\* playing.
C28_IndicatorMatchesAudio ==
    PlayingScenes = (IF playingAudioId = Null THEN {} ELSE {playingAudioId})

\* C30: at most one voice test runs at a time: while a voice test is under
\* way (its request in flight or its sample playing) isTestingVoice is
\* true, and no second request is issued meanwhile.
C30_OneVoiceTest ==
    /\ (voiceCalls > 0 \/ PlayingSamples # {}) => isTestingVoice
    /\ voiceCalls + Cardinality(PlayingSamples) <= 1

\* The unsigned integers read little-endian at byte offset off of b
U16At(b, off) == b[off + 1] + 256 * b[off + 2]
U32At(b, off) == U16At(b, off) + 65536 * U16At(b, off + 2)

\* The four bytes at byte offset off of b
BytesAt(b, off) == SubSeq(b, off + 1, off + 4)

\* C24: for every PCM byte sequence of length N and sample rate R,
\* createWavBlob produces exactly 44 + N bytes whose bytes 4..7 read
\* little-endian as 36 + N, bytes 24..27 as R and bytes 40..43 as N.
C24_WavSizeFields ==
    wav.out # <<>> =>
        /\ Len(wav.out) = 44 + Len(wav.pcm)
        /\ U32At(wav.out, 4) = 36 + Len(wav.pcm)
        /\ U32At(wav.out, 24) = wav.rate
        /\ U32At(wav.out, 40) = Len(wav.pcm)

\* An input whose sizes and rate need more than one byte was encoded.
C24_Witness ==
    /\ wav.out # <<>>
    /\ Len(wav.pcm) >= 256
    /\ wav.rate >= 16777216
    /\ wav.out[6] # 0
    /\ wav.out[28] # 0

\* C25: the output of createWavBlob from offset 44 on is the input PCM
\* unmodified, and the header holds "RIFF" at 0, "WAVE" at 8, "fmt " at 12,
\* Subchunk1Size 16 at 16, AudioFormat 1 at 20, NumChannels 1 at 22,
\* ByteRate = 2 * sampleRate at 28, BlockAlign 2 at 32, BitsPerSample 16 at
\* 34 and "data" at 36, all integers little-endian.
C25_WavHeaderPrepend ==
    wav.out # <<>> =>
        /\ SubSeq(wav.out, 45, Len(wav.out)) = wav.pcm
        /\ BytesAt(wav.out, 0) = <<82, 73, 70, 70>>
        /\ BytesAt(wav.out, 8) = <<87, 65, 86, 69>>
        /\ BytesAt(wav.out, 12) = <<102, 109, 116, 32>>
        /\ U32At(wav.out, 16) = 16
        /\ U16At(wav.out, 20) = 1
        /\ U16At(wav.out, 22) = 1
        /\ U32At(wav.out, 28) = 2 * wav.rate
        /\ U16At(wav.out, 32) = 2
        /\ U16At(wav.out, 34) = 16
        /\ BytesAt(wav.out, 36) = <<100, 97, 116, 97>>

\* PCM of the largest short length with bytes 0 and 255 was encoded at the
\* rate downloadSceneAudio uses.
C25_Witness ==
    /\ wav.out # <<>>
    /\ wav.rate = 24000
    /\ Len(wav.pcm) = MaxPcmLen
    /\ \E i, j \in DOMAIN wav.pcm : wav.pcm[i] = 255 /\ wav.pcm[j] = 0
    /\ wav.out[Len(wav.out)] = wav.pcm[Len(wav.pcm)]

====
